---- MODULE Spec2Model ----
(***************************************************************************)
(* The execution service of containerd (execution/service.go): the boot-   *)
(* time recovery pass New, the process monitors it and the facade arm, and *)
(* the facade operations, over an executor that owns the containers and    *)
(* their processes.                                                        *)
(***************************************************************************)
EXTENDS Integers, Sequences, FiniteSets, TLC

\* ---------------------------------------------------------------- bounds
\* containers the executor holds, processes of one container, restarts of
\* the daemon, and requests the facade serves in all
MaxContainers == 2
MaxProcs == 2
MaxRestarts == 1
MaxCalls == 3

ContainerIDs == 1..MaxContainers
\* process IDs a request can name; InitID is the one the executor gives init
InitID == 0
ProcessIDs == InitID..(MaxProcs - 1)
ExitCodes == {0, 1}

\* ------------------------------------------------------------- constants
Created == "created"
Running == "running"
Stopped == "stopped"
Paused == "paused"
Deleted == "deleted"

\* status codes: a process killed by os.Kill, and the recovery sentinel
KillCode == 137
UnknownStatusCode == 255

\* signal numbers a SignalProcess request carries: 0 probes, 9 is os.Kill
SIGKILL == 9
Signals == {0, SIGKILL}

ErrNil == "nil"
ErrContainerNotFound == "ErrContainerNotFound"
ErrProcessNotFound == "ErrProcessNotFound"
ErrExecutor == "ErrExecutor"
ErrAdHoc == "Make me a constant! Process not foumd!"

VARIABLES
    containers,  \* executor: the containers List returns, in its order
    proc,        \* executor: proc[c][p], the Process objects
    svc,         \* the daemon: "booting" (in New), "up", "down", "crashed"
    rec,         \* New's locals and its position
    monitors,    \* the goroutines monitorProcess started in this run
    events,      \* everything posted to the event bus, in order
    trace,       \* what New did in this run, in order
    boot,        \* how often the daemon was restarted
    calls,       \* how many requests the facade has served
    resp         \* the response of the request served in the last step

vars == <<containers, proc, svc, rec, monitors, events, trace, boot, calls, resp>>

\* ------------------------------------------------------ executor (state)
NoProc == [status |-> "none", code |-> 0]

IndexOf(id) == CHOOSE i \in 1..Len(containers) : containers[i].id = id

Exists(id) == \E i \in 1..Len(containers) : containers[i].id = id

Container(id) == containers[IndexOf(id)]

\* Container.Processes(): the processes in stored order, init first
Processes(id) == Container(id).processes

\* Container.GetProcess: whether the container has a process of that ID
HasProcess(id, pid) == \E k \in 1..Len(Processes(id)) : Processes(id)[k] = pid

SetStatus(cs, id, st) ==
    [i \in 1..Len(cs) |-> IF cs[i].id = id THEN [cs[i] EXCEPT !.status = st] ELSE cs[i]]

\* a process ends with code: its status is Stopped from then on, and the
\* end of the init process stops the container
Ended(id, pid, code) ==
    /\ proc' = [proc EXCEPT ![id][pid] = [status |-> Stopped, code |-> code]]
    /\ containers' = IF pid = InitID THEN SetStatus(containers, id, Stopped)
                                     ELSE containers

\* Process.Wait returns once the process has ended
CanWait(id, pid) == proc[id][pid].status = Stopped

\* ------------------------------------------------------------- event bus
\* a GetContainerProcessEventTopic that names the container only
TopicOfContainer(containerID, processID) == <<"containers", containerID>>

GetContainerProcessEventTopic(containerID, processID) ==
    <<"containers", containerID, "processes", processID>>

ContainerExitEvent(id, pid, sc) ==
    [ID |-> id, Action |-> "exit", PID |-> pid, StatusCode |-> sc]

\* publishEvent: posts v under topic; by and run say which path of which
\* run of the daemon posted it, gone whether the container was deleted, or
\* the process removed from it, by then
publishEvent(topic, v, by) ==
    events' = Append(events, [topic |-> topic, v |-> v, by |-> by, run |-> boot,
                              gone |-> \/ Container(v.ID).status = Deleted
                                       \/ ~HasProcess(v.ID, v.PID)])

\* resp where the last step was no facade call
NoResp == [op |-> "", id |-> 0, pid |-> 0, payload |-> "", err |-> "nil",
           exec |-> <<>>, value |-> <<>>]

\* an entry of trace: what New did (op) to which container and process; ok
\* is whether Wait returned a status (wait, publish) or whether the process
\* had not stopped when New came to it (reach, monitor); ps and stopped are
\* the container's processes, and those of them that had stopped, when New
\* came to the container (begin)
Did(op, id, pid, ok, status, ps) ==
    [op |-> op, id |-> id, pid |-> pid, ok |-> ok, status |-> status, ps |-> ps,
     stopped |-> {q \in {ps[k] : k \in 1..Len(ps)} : proc[id][q].status = Stopped}]

\* --------------------------------------------------------- monitorProcess
\* a monitorProcess that starts two goroutines for the process
monitorProcessTwice(id, pid) ==
    monitors' = Append(Append(monitors, [cid |-> id, pid |-> pid, pc |-> "wait"]),
                       [cid |-> id, pid |-> pid, pc |-> "wait"])

\* a monitorProcess that has waited itself: its goroutine has ended by the
\* time it returns
monitorProcessInline(id, pid) ==
    monitors' = Append(monitors, [cid |-> id, pid |-> pid, pc |-> "failed"])

\* monitorProcess starts one goroutine holding the container and process
monitorProcess(id, pid) ==
    monitors' = Append(monitors, [cid |-> id, pid |-> pid, pc |-> "wait"])

\* a monitor that publishes whether or not Wait failed
MonitorPublishesAlways(ok) == TRUE

\* whether the goroutine publishes after Wait returned (err == nil)
MonitorPublishes(ok) == ok

\* a monitor that reports the container's init process, not its own
MonitorEventOfInit(m, status) ==
    ContainerExitEvent(monitors[m].cid, InitID, status)

\* the event the goroutine posts, status being what Wait returned
MonitorEvent(m, status) ==
    ContainerExitEvent(monitors[m].cid, monitors[m].pid, status)

\* the goroutine: Wait returns, with a status or with an error, and with a
\* status the event is posted; then the goroutine ends
Monitor(m) ==
    /\ svc \in {"booting", "up"}
    /\ monitors[m].pc = "wait"
    /\ CanWait(monitors[m].cid, monitors[m].pid)
    /\ \E ok \in BOOLEAN :
          /\ monitors' = [monitors EXCEPT ![m].pc = IF ok THEN "done" ELSE "failed"]
          /\ IF MonitorPublishes(ok)
               THEN publishEvent(
                        GetContainerProcessEventTopic(monitors[m].cid, monitors[m].pid),
                        MonitorEvent(m, proc[monitors[m].cid][monitors[m].pid].code),
                        <<"monitor", m>>)
               ELSE UNCHANGED events
    /\ resp' = NoResp
    /\ UNCHANGED <<containers, proc, svc, rec, trace, boot, calls>>

\* -------------------------------------------------------------------- New
RecStart == [pc |-> "list", list |-> <<>>, ci |-> 1, pi |-> 1,
             status |-> "", processes |-> <<>>, range |-> <<>>]

\* executor.List, and New's return of its error
NewList ==
    /\ svc = "booting"
    /\ rec.pc = "list"
    /\ \E ok \in BOOLEAN :
          IF ok
            THEN /\ rec' = [rec EXCEPT !.pc = "container",
                              !.list = [i \in 1..Len(containers) |-> containers[i].id]]
                 /\ svc' = svc
            ELSE /\ rec' = [rec EXCEPT !.pc = "failed"]
                 /\ svc' = "down"
    /\ resp' = NoResp
    /\ UNCHANGED <<containers, proc, monitors, events, trace, boot, calls>>

\* processes = append(processes[1:], processes[0])
Reorder(ps) == Append(Tail(ps), Head(ps))

\* the sequence the inner loop ranges over: the container's own field
RangeOf(id) == Container(id).processes

\* the head of the outer loop: Status, Processes, the reordering, the range;
\* indexing an empty process list is a run-time panic, which ends the daemon
NewContainer ==
    /\ svc = "booting"
    /\ rec.pc = "container"
    /\ rec.ci <= Len(rec.list)
    /\ LET id == rec.list[rec.ci]
           ps == Processes(id)
       IN  IF Len(ps) = 0
             THEN /\ rec' = [rec EXCEPT !.pc = "panicked"]
                  /\ svc' = "crashed"
                  /\ monitors' = <<>>
                  /\ trace' = Append(trace, Did("panic", id, InitID, TRUE, Container(id).status, ps))
             ELSE /\ rec' = [rec EXCEPT !.pc = "process", !.pi = 1,
                               !.status = Container(id).status,
                               !.processes = Reorder(ps),
                               !.range = RangeOf(id)]
                  /\ trace' = Append(trace, Did("begin", id, InitID, TRUE, Container(id).status, ps))
                  /\ UNCHANGED <<svc, monitors>>
    /\ resp' = NoResp
    /\ UNCHANGED <<containers, proc, events, boot, calls>>

\* a recovery that reaps whatever is not running
ReapsNotRunning(status) == status # Running

\* the branch of line 38
Reaps(status) == status = Stopped \/ status = Deleted

\* a recovery that signals the stopped processes, not the others
NeedsSignalInverted(id, pid) == proc[id][pid].status = Stopped

\* the guard of line 39
NeedsSignal(id, pid) == proc[id][pid].status # Stopped

\* New's position after the body of the inner loop: the next process, or
\* the head of the outer loop
Advance(r) ==
    IF r.pi < Len(r.range)
      THEN [r EXCEPT !.pc = "process", !.pi = @ + 1]
      ELSE [r EXCEPT !.pc = "container", !.ci = @ + 1]

\* p.Signal(os.Kill) where the process has not stopped; the signal may fail
NewSignal ==
    /\ svc = "booting"
    /\ rec.pc = "process"
    /\ Reaps(rec.status)
    /\ LET id == rec.list[rec.ci]
           pid == rec.range[rec.pi]
           reach == Did("reach", id, pid, proc[id][pid].status # Stopped, rec.status, <<>>)
       IN  IF NeedsSignal(id, pid)
             THEN /\ trace' = trace \o <<reach, Did("signal", id, pid, TRUE, rec.status, <<>>)>>
                  /\ \E sent \in BOOLEAN :
                        IF sent /\ proc[id][pid].status # Stopped
                          THEN Ended(id, pid, KillCode)
                          ELSE UNCHANGED <<containers, proc>>
             ELSE /\ trace' = Append(trace, reach)
                  /\ UNCHANGED <<containers, proc>>
    /\ rec' = [rec EXCEPT !.pc = "wait"]
    /\ resp' = NoResp
    /\ UNCHANGED <<svc, monitors, events, boot, calls>>

\* a recovery that keeps what Wait returned beside its error
ReapStatusCodeUnchecked(ok, code) == code

\* the status code of lines 42-45
ReapStatusCode(ok, code) == IF ok THEN code ELSE UnknownStatusCode

\* lines 42-55: Wait returns, with a status or with an error, and the event
\* is posted
NewWait ==
    /\ svc = "booting"
    /\ rec.pc = "wait"
    /\ LET id == rec.list[rec.ci]
           pid == rec.range[rec.pi]
       IN  /\ CanWait(id, pid)
           /\ \E ok \in BOOLEAN :
                 /\ publishEvent(GetContainerProcessEventTopic(id, pid),
                        ContainerExitEvent(id, pid, ReapStatusCode(ok, proc[id][pid].code)),
                        <<"recovery", 0>>)
                 /\ trace' = trace \o <<Did("wait", id, pid, ok, rec.status, <<>>),
                                        Did("publish", id, pid, ok, rec.status, <<>>)>>
    /\ rec' = Advance(rec)
    /\ resp' = NoResp
    /\ UNCHANGED <<containers, proc, svc, monitors, boot, calls>>

\* line 57
NewMonitor ==
    /\ svc = "booting"
    /\ rec.pc = "process"
    /\ ~Reaps(rec.status)
    /\ LET id == rec.list[rec.ci]
           pid == rec.range[rec.pi]
       IN  /\ monitorProcess(id, pid)
           /\ trace' = Append(trace, Did("monitor", id, pid, proc[id][pid].status # Stopped,
                                       rec.status, <<>>))
    /\ rec' = Advance(rec)
    /\ resp' = NoResp
    /\ UNCHANGED <<containers, proc, svc, events, boot, calls>>

\* return svc, nil
NewReturn ==
    /\ svc = "booting"
    /\ rec.pc = "container"
    /\ rec.ci > Len(rec.list)
    /\ rec' = [rec EXCEPT !.pc = "returned"]
    /\ svc' = "up"
    /\ resp' = NoResp
    /\ UNCHANGED <<containers, proc, monitors, events, trace, boot, calls>>

\* ----------------------------------------------------------------- facade
emptyResponse == "empty"
NilPayload == "nil"
ValuePayload == "value"

\* a request is served once New has returned
Serving == svc = "up" /\ calls < MaxCalls /\ calls' = calls + 1

Response(op, id, pid, payload, err) ==
    [op |-> op, id |-> id, pid |-> pid, payload |-> payload, err |-> err]

\* the response with what the handler asked of the executor, each call with
\* the error it returned, and with the content of the payload
With(r, exec, value) ==
    [op |-> r.op, id |-> r.id, pid |-> r.pid, payload |-> r.payload, err |-> r.err,
     exec |-> exec, value |-> value]

Called(method, err) == [method |-> method, err |-> err]

\* executor.Load
Load(id) == IF Exists(id) THEN ErrNil ELSE ErrContainerNotFound

\* the IDs are interchangeable: a request names a used ID or the least unused
FreshContainer(id) == \A j \in ContainerIDs : j < id => Exists(j)

FreshProcess(id, pid) == \A q \in ProcessIDs : q < pid => proc[id][q].status # "none"

\* the bundle path a request to create container id carries
BundleOf(id) == <<"bundles", id>>

\* wire statuses; StatusZero is the zero value of the wire status field
StatusZero == "Status(0)"
StatusCREATED == "CREATED"
StatusRUNNING == "RUNNING"
StatusSTOPPED == "STOPPED"
StatusPAUSED == "PAUSED"

\* a mapper that reports a deleted container as stopped
MapStatusDeletedStopped(status) ==
    CASE status = "created" -> StatusCREATED
      [] status = "running" -> StatusRUNNING
      [] status = "stopped" -> StatusSTOPPED
      [] status = "deleted" -> StatusSTOPPED
      [] status = "paused" -> StatusPAUSED
      [] OTHER -> StatusZero

\* the switch of toGRPCContainer
MapStatus(status) ==
    CASE status = "created" -> StatusCREATED
      [] status = "running" -> StatusRUNNING
      [] status = "stopped" -> StatusSTOPPED
      [] status = "paused" -> StatusPAUSED
      [] OTHER -> StatusZero

toGRPCContainer(c) ==
    [ID |-> c.id, BundlePath |-> c.bundle, Status |-> MapStatus(c.status)]

\* the process as the interface shows it; the pid the system gave it is not
\* part of the model
toGRPCProcess(pid) == [ID |-> pid]

toGRPCProcesses(ps) == [k \in 1..Len(ps) |-> toGRPCProcess(ps[k])]

Create(id) ==
    /\ Serving
    /\ FreshContainer(id)
    /\ IF Exists(id)
         THEN /\ resp' = With(Response("Create", id, InitID, NilPayload, ErrExecutor),
                              <<Called("Create", ErrExecutor)>>, <<>>)
              /\ UNCHANGED <<containers, proc, monitors>>
         ELSE /\ containers' = Append(containers,
                     [id |-> id, bundle |-> BundleOf(id), status |-> Created,
                      processes |-> <<InitID>>])
              /\ proc' = [proc EXCEPT ![id][InitID] = [status |-> Running, code |-> 0]]
              /\ monitorProcess(id, InitID)
              /\ resp' = With(Response("Create", id, InitID, ValuePayload, ErrNil),
                              <<Called("Create", ErrNil)>>,
                              <<toGRPCContainer([id |-> id, bundle |-> BundleOf(id),
                                                 status |-> Created]),
                                toGRPCProcess(InitID)>>)
    /\ UNCHANGED <<svc, rec, events, trace, boot>>

\* executor.Delete releases a stopped container: it stays listed as Deleted
ExecutorDelete(id) == IF Container(id).status = Stopped THEN ErrNil ELSE ErrExecutor

\* a Delete that ends the monitors of the container it deletes
DeleteCancelling(id) ==
    /\ Serving
    /\ IF Load(id) # ErrNil
         THEN /\ resp' = With(Response("Delete", id, InitID, emptyResponse, Load(id)),
                              <<Called("Load", Load(id))>>, <<>>)
              /\ UNCHANGED <<containers, monitors>>
         ELSE IF ExecutorDelete(id) # ErrNil
         THEN /\ resp' = With(Response("Delete", id, InitID, emptyResponse, ExecutorDelete(id)),
                              <<Called("Load", ErrNil), Called("Delete", ExecutorDelete(id))>>,
                              <<>>)
              /\ UNCHANGED <<containers, monitors>>
         ELSE /\ containers' = SetStatus(containers, id, Deleted)
              /\ monitors' = [m \in 1..Len(monitors) |->
                                IF monitors[m].cid = id /\ monitors[m].pc = "wait"
                                  THEN [monitors[m] EXCEPT !.pc = "failed"]
                                  ELSE monitors[m]]
              /\ resp' = With(Response("Delete", id, InitID, emptyResponse, ErrNil),
                              <<Called("Load", ErrNil), Called("Delete", ErrNil)>>, <<>>)
    /\ UNCHANGED <<proc, svc, rec, events, trace, boot>>

Delete(id) ==
    /\ Serving
    /\ IF Load(id) # ErrNil
         THEN /\ resp' = With(Response("Delete", id, InitID, emptyResponse, Load(id)),
                              <<Called("Load", Load(id))>>, <<>>)
              /\ UNCHANGED containers
         ELSE IF ExecutorDelete(id) # ErrNil
         THEN /\ resp' = With(Response("Delete", id, InitID, emptyResponse, ExecutorDelete(id)),
                              <<Called("Load", ErrNil), Called("Delete", ExecutorDelete(id))>>,
                              <<>>)
              /\ UNCHANGED containers
         ELSE /\ containers' = SetStatus(containers, id, Deleted)
              /\ resp' = With(Response("Delete", id, InitID, emptyResponse, ErrNil),
                              <<Called("Load", ErrNil), Called("Delete", ErrNil)>>, <<>>)
    /\ UNCHANGED <<proc, svc, rec, monitors, events, trace, boot>>

\* executor.List: the containers, or an error
List ==
    /\ Serving
    /\ \E ok \in BOOLEAN :
          resp' = IF ok
                    THEN With(Response("List", 0, InitID, ValuePayload, ErrNil),
                              <<Called("List", ErrNil)>>,
                              [i \in 1..Len(containers) |-> toGRPCContainer(containers[i])])
                    ELSE With(Response("List", 0, InitID, NilPayload, ErrExecutor),
                              <<Called("List", ErrExecutor)>>, <<>>)
    /\ UNCHANGED <<containers, proc, svc, rec, monitors, events, trace, boot>>

\* a Get that answers every failure with an error of its own
GetWrapping(id) ==
    /\ Serving
    /\ resp' = IF Load(id) # ErrNil
                 THEN With(Response("Get", id, InitID, NilPayload, ErrAdHoc),
                           <<Called("Load", Load(id))>>, <<>>)
                 ELSE With(Response("Get", id, InitID, ValuePayload, ErrNil),
                           <<Called("Load", ErrNil)>>, <<toGRPCContainer(Container(id))>>)
    /\ UNCHANGED <<containers, proc, svc, rec, monitors, events, trace, boot>>

Get(id) ==
    /\ Serving
    /\ resp' = IF Load(id) # ErrNil
                 THEN With(Response("Get", id, InitID, NilPayload, Load(id)),
                           <<Called("Load", Load(id))>>, <<>>)
                 ELSE With(Response("Get", id, InitID, ValuePayload, ErrNil),
                           <<Called("Load", ErrNil)>>, <<toGRPCContainer(Container(id))>>)
    /\ UNCHANGED <<containers, proc, svc, rec, monitors, events, trace, boot>>

\* an Update that looks the container up first
UpdateLoading(id) ==
    /\ Serving
    /\ resp' = With(Response("Update", id, InitID, emptyResponse, Load(id)),
                    <<Called("Load", Load(id))>>, <<>>)
    /\ UNCHANGED <<containers, proc, svc, rec, monitors, events, trace, boot>>

Update(id) ==
    /\ Serving
    /\ resp' = With(Response("Update", id, InitID, emptyResponse, ErrNil), <<>>, <<>>)
    /\ UNCHANGED <<containers, proc, svc, rec, monitors, events, trace, boot>>

\* executor.Start, Pause, Resume: the transition each makes, or its error
Transition(id, from, to, op) ==
    /\ Serving
    /\ IF Load(id) # ErrNil
         THEN /\ resp' = With(Response(op, id, InitID, NilPayload, Load(id)),
                              <<Called("Load", Load(id))>>, <<>>)
              /\ UNCHANGED containers
         ELSE IF Container(id).status # from
         THEN /\ resp' = With(Response(op, id, InitID, emptyResponse, ErrExecutor),
                              <<Called("Load", ErrNil), Called(op, ErrExecutor)>>, <<>>)
              /\ UNCHANGED containers
         ELSE /\ containers' = SetStatus(containers, id, to)
              /\ resp' = With(Response(op, id, InitID, emptyResponse, ErrNil),
                              <<Called("Load", ErrNil), Called(op, ErrNil)>>, <<>>)
    /\ UNCHANGED <<proc, svc, rec, monitors, events, trace, boot>>

Pause(id) == Transition(id, Running, Paused, "Pause")

Resume(id) == Transition(id, Paused, Running, "Resume")

Start(id) == Transition(id, Created, Running, "Start")

\* executor.StartProcess: a new process of a container that has not stopped
ExecutorStartProcess(id, pid) ==
    IF proc[id][pid].status = "none" /\ ~Reaps(Container(id).status)
      THEN ErrNil ELSE ErrExecutor

StartProcess(id, pid) ==
    /\ Serving
    /\ Exists(id) => FreshProcess(id, pid)
    /\ IF Load(id) # ErrNil
         THEN /\ resp' = With(Response("StartProcess", id, pid, NilPayload, Load(id)),
                              <<Called("Load", Load(id))>>, <<>>)
              /\ UNCHANGED <<containers, proc, monitors>>
         ELSE IF ExecutorStartProcess(id, pid) # ErrNil
         THEN /\ resp' = With(Response("StartProcess", id, pid, NilPayload,
                                       ExecutorStartProcess(id, pid)),
                              <<Called("Load", ErrNil),
                                Called("StartProcess", ExecutorStartProcess(id, pid))>>, <<>>)
              /\ UNCHANGED <<containers, proc, monitors>>
         ELSE /\ containers' = [containers EXCEPT ![IndexOf(id)].processes = Append(@, pid)]
              /\ proc' = [proc EXCEPT ![id][pid] = [status |-> Running, code |-> 0]]
              /\ monitorProcess(id, pid)
              /\ resp' = With(Response("StartProcess", id, pid, ValuePayload, ErrNil),
                              <<Called("Load", ErrNil), Called("StartProcess", ErrNil)>>,
                              <<toGRPCProcess(pid)>>)
    /\ UNCHANGED <<svc, rec, events, trace, boot>>

GetProcess(id, pid) ==
    /\ Serving
    /\ resp' = IF Load(id) # ErrNil
                 THEN With(Response("GetProcess", id, pid, NilPayload, Load(id)),
                           <<Called("Load", Load(id))>>, <<>>)
               ELSE IF ~HasProcess(id, pid)
                 THEN With(Response("GetProcess", id, pid, NilPayload, ErrProcessNotFound),
                           <<Called("Load", ErrNil)>>, <<>>)
               ELSE With(Response("GetProcess", id, pid, ValuePayload, ErrNil),
                         <<Called("Load", ErrNil)>>, <<toGRPCProcess(pid)>>)
    /\ UNCHANGED <<containers, proc, svc, rec, monitors, events, trace, boot>>

\* the error SignalProcess returns where the container has no such process
SignalNoProcess == ErrAdHoc

\* Process.Signal: fails where the process is gone; os.Kill ends it
SignalProcess(id, pid, sig) ==
    /\ Serving
    /\ IF Load(id) # ErrNil
         THEN /\ resp' = With(Response("SignalProcess", id, pid, emptyResponse, Load(id)),
                              <<Called("Load", Load(id))>>, <<>>)
              /\ UNCHANGED <<containers, proc>>
         ELSE IF ~HasProcess(id, pid)
         THEN /\ resp' = With(Response("SignalProcess", id, pid, NilPayload, SignalNoProcess),
                              <<Called("Load", ErrNil)>>, <<>>)
              /\ UNCHANGED <<containers, proc>>
         ELSE IF proc[id][pid].status = Stopped
         THEN /\ resp' = With(Response("SignalProcess", id, pid, emptyResponse, ErrExecutor),
                              <<Called("Load", ErrNil)>>, <<>>)
              /\ UNCHANGED <<containers, proc>>
         ELSE /\ resp' = With(Response("SignalProcess", id, pid, emptyResponse, ErrNil),
                              <<Called("Load", ErrNil)>>, <<>>)
              /\ IF sig = SIGKILL THEN Ended(id, pid, KillCode)
                                  ELSE UNCHANGED <<containers, proc>>
    /\ UNCHANGED <<svc, rec, monitors, events, trace, boot>>

\* executor.DeleteProcess: removes a stopped process from the container
ExecutorDeleteProcess(id, pid) ==
    IF ~HasProcess(id, pid) THEN ErrProcessNotFound
    ELSE IF proc[id][pid].status # Stopped THEN ErrExecutor
    ELSE ErrNil

Remove(ps, pid) == SelectSeq(ps, LAMBDA q : q # pid)

DeleteProcess(id, pid) ==
    /\ Serving
    /\ IF Load(id) # ErrNil
         THEN /\ resp' = With(Response("DeleteProcess", id, pid, emptyResponse, Load(id)),
                              <<Called("Load", Load(id))>>, <<>>)
              /\ UNCHANGED containers
         ELSE IF ExecutorDeleteProcess(id, pid) # ErrNil
         THEN /\ resp' = With(Response("DeleteProcess", id, pid, emptyResponse,
                                       ExecutorDeleteProcess(id, pid)),
                              <<Called("Load", ErrNil),
                                Called("DeleteProcess", ExecutorDeleteProcess(id, pid))>>, <<>>)
              /\ UNCHANGED containers
         ELSE /\ containers' = [containers EXCEPT ![IndexOf(id)].processes = Remove(@, pid)]
              /\ resp' = With(Response("DeleteProcess", id, pid, emptyResponse, ErrNil),
                              <<Called("Load", ErrNil), Called("DeleteProcess", ErrNil)>>, <<>>)
    /\ UNCHANGED <<proc, svc, rec, monitors, events, trace, boot>>

ListProcesses(id) ==
    /\ Serving
    /\ resp' = IF Load(id) # ErrNil
                 THEN With(Response("ListProcesses", id, InitID, NilPayload, Load(id)),
                           <<Called("Load", Load(id))>>, <<>>)
                 ELSE With(Response("ListProcesses", id, InitID, ValuePayload, ErrNil),
                           <<Called("Load", ErrNil)>>, toGRPCProcesses(Processes(id)))
    /\ UNCHANGED <<containers, proc, svc, rec, monitors, events, trace, boot>>

\* ------------------------------------------------------------ environment
\* a running process ends by itself
ProcExit(id, pid, code) ==
    /\ proc[id][pid].status = Running
    /\ Ended(id, pid, code)
    /\ resp' = NoResp
    /\ UNCHANGED <<svc, rec, monitors, events, trace, boot, calls>>

\* the daemon is stopped, or has ended, and is started again: its goroutines
\* are gone and New runs
Restart ==
    /\ svc # "booting"
    /\ boot < MaxRestarts
    /\ boot' = boot + 1
    /\ svc' = "booting"
    /\ rec' = RecStart
    /\ monitors' = <<>>
    /\ trace' = <<>>
    /\ resp' = NoResp
    /\ UNCHANGED <<containers, proc, events, calls>>

Init ==
    /\ containers = <<>>
    /\ proc = [c \in ContainerIDs |-> [p \in ProcessIDs |-> NoProc]]
    /\ svc = "booting"
    /\ rec = RecStart
    /\ monitors = <<>>
    /\ events = <<>>
    /\ trace = <<>>
    /\ boot = 0
    /\ calls = 0
    /\ resp = NoResp

Next ==
    \/ NewList
    \/ NewContainer
    \/ NewSignal
    \/ NewWait
    \/ NewMonitor
    \/ NewReturn
    \/ \E m \in 1..Len(monitors) : Monitor(m)
    \/ \E id \in ContainerIDs, pid \in ProcessIDs, code \in ExitCodes : ProcExit(id, pid, code)
    \/ Restart
    \/ \E id \in ContainerIDs : Create(id)
    \/ \E id \in ContainerIDs : Delete(id)
    \/ List
    \/ \E id \in ContainerIDs : Get(id)
    \/ \E id \in ContainerIDs : Update(id)
    \/ \E id \in ContainerIDs : ListProcesses(id)
    \/ \E id \in ContainerIDs : Pause(id)
    \/ \E id \in ContainerIDs : Resume(id)
    \/ \E id \in ContainerIDs : Start(id)
    \/ \E id \in ContainerIDs, pid \in ProcessIDs : StartProcess(id, pid)
    \/ \E id \in ContainerIDs, pid \in ProcessIDs : GetProcess(id, pid)
    \/ \E id \in ContainerIDs, pid \in ProcessIDs, sig \in Signals : SignalProcess(id, pid, sig)
    \/ \E id \in ContainerIDs, pid \in ProcessIDs : DeleteProcess(id, pid)

Spec == Init /\ [][Next]_vars

\* ------------------------------------------------------------ properties
\* the events New has posted in this run of the daemon, in order
RecoveryEvents == SelectSeq(events, LAMBDA e : e.by[1] = "recovery" /\ e.run = boot)

\* the events monitor m of this run has posted
MonitorEvents(m) ==
    {i \in 1..Len(events) : events[i].run = boot /\ events[i].by = <<"monitor", m>>}

\* the containers New has come to in this run, as places of trace
Begun == {b \in 1..Len(trace) : trace[b].op = "begin"}

\* the place of trace where New left the container begun at b
EndOf(b) ==
    IF \E e \in (b + 1)..Len(trace) : trace[e].op \in {"begin", "panic"}
      THEN CHOOSE e \in (b + 1)..Len(trace) :
              /\ trace[e].op \in {"begin", "panic"}
              /\ \A f \in (b + 1)..(e - 1) : trace[f].op \notin {"begin", "panic"}
      ELSE Len(trace) + 1

\* New is through with the container begun at b
Finished(b) == rec.pc = "returned" \/ EndOf(b) <= Len(trace)

Is(t, op, id, pid) == t.op = op /\ t.id = id /\ t.pid = pid

\* C1: in recovery, the exit event of the init process (the first of the
\* container's process list) of a Stopped or Deleted container is published
\* only after the exit events of all the other processes of that container.
C1_InitExitLast ==
    \A b \in Begun :
        trace[b].status \in {Stopped, Deleted} =>
            \A i \in 1..Len(RecoveryEvents) :
                (/\ RecoveryEvents[i].v.ID = trace[b].id
                 /\ RecoveryEvents[i].v.PID = Head(trace[b].ps))
                => \A k \in 2..Len(trace[b].ps) :
                      \E j \in 1..(i - 1) :
                          /\ RecoveryEvents[j].v.ID = trace[b].id
                          /\ RecoveryEvents[j].v.PID = trace[b].ps[k]

\* C2: at most one exit event is ever published for a process, both paths
\* (monitor and recovery) and all runs of the daemon counted together.
C2_AtMostOneExitEvent ==
    \A i, j \in 1..Len(events) :
        (events[i].v.ID = events[j].v.ID /\ events[i].v.PID = events[j].v.PID) => i = j

\* C3: a monitor whose Wait returned a status has published exactly one exit
\* event, with its container's ID, its process's ID, the action "exit" and
\* that status; a monitor that is waiting or whose Wait failed has published
\* none; and every monitor event of this run is the event of one monitor.
C3_MonitorPublishesOnce ==
    svc \in {"booting", "up"} =>
        /\ \A m \in 1..Len(monitors) :
              /\ Cardinality(MonitorEvents(m)) = IF monitors[m].pc = "done" THEN 1 ELSE 0
              /\ \A i \in MonitorEvents(m) :
                    events[i].v = [ID |-> monitors[m].cid, Action |-> "exit",
                                   PID |-> monitors[m].pid,
                                   StatusCode |-> proc[monitors[m].cid][monitors[m].pid].code]
        /\ \A i \in 1..Len(events) :
              (events[i].run = boot /\ events[i].by[1] = "monitor")
              => events[i].by[2] \in 1..Len(monitors)

\* two monitors of one run have both published, the later armed first
C3_Witness ==
    /\ svc = "up"
    /\ \E m1, m2 \in 1..Len(monitors) :
          /\ m1 < m2
          /\ monitors[m1].pc = "done" /\ monitors[m2].pc = "done"
          /\ \E i \in MonitorEvents(m1), j \in MonitorEvents(m2) :
                j < i /\ events[i].v.StatusCode # events[j].v.StatusCode

\* C4: once recovery has left a container it found Stopped or Deleted, it
\* has come to every process of it, and each one that had not stopped was
\* sent the kill signal, then waited on, then had its exit event published by
\* recovery itself, all before the next container was begun or New returned;
\* no monitor of this run published for it.
C4_ReapedBeforeNext ==
    \A b \in Begun :
        (trace[b].status \in {Stopped, Deleted} /\ Finished(b)) =>
            \A k \in 1..Len(trace[b].ps) :
                LET id == trace[b].id
                    pid == trace[b].ps[k]
                IN  \E r \in (b + 1)..(EndOf(b) - 1) :
                       /\ Is(trace[r], "reach", id, pid)
                       /\ trace[r].ok =>
                             /\ r + 3 < EndOf(b)
                             /\ Is(trace[r + 1], "signal", id, pid)
                             /\ Is(trace[r + 2], "wait", id, pid)
                             /\ Is(trace[r + 3], "publish", id, pid)
                             /\ \E i \in 1..Len(RecoveryEvents) :
                                   /\ RecoveryEvents[i].v.ID = id
                                   /\ RecoveryEvents[i].v.PID = pid
                             /\ \A i \in 1..Len(events) :
                                   (/\ events[i].run = boot
                                    /\ events[i].v.ID = id
                                    /\ events[i].v.PID = pid)
                                   => events[i].by[1] = "recovery"

\* recovery reaped a process that had not stopped and went on to the next
\* container
C4_Witness ==
    \E b1, b2 \in Begun :
        /\ b1 < b2
        /\ trace[b1].status \in {Stopped, Deleted}
        /\ \E r \in (b1 + 1)..(b2 - 1) : trace[r].op = "reach" /\ trace[r].ok

\* C5: after New has returned, every live process of a container that New
\* found Created, Running or Paused has exactly one monitor, which is
\* waiting, and New signalled and reaped nothing of that container.
C5_OneMonitorPerLiveProcess ==
    svc = "up" =>
        \A b \in Begun :
            trace[b].status \in {Created, Running, Paused} =>
                /\ \A k \in 1..Len(trace[b].ps) :
                      proc[trace[b].id][trace[b].ps[k]].status = Running =>
                          /\ Cardinality({m \in 1..Len(monitors) :
                                 /\ monitors[m].cid = trace[b].id
                                 /\ monitors[m].pid = trace[b].ps[k]}) = 1
                          /\ \E m \in 1..Len(monitors) :
                                 /\ monitors[m].cid = trace[b].id
                                 /\ monitors[m].pid = trace[b].ps[k]
                                 /\ monitors[m].pc = "wait"
                /\ \A i \in 1..Len(trace) :
                      trace[i].id = trace[b].id => trace[i].op \in {"begin", "monitor"}

\* New has returned after it found a container that had not stopped, with
\* two processes, and both are still live
C5_Witness ==
    /\ svc = "up"
    /\ \E b \in Begun :
          /\ trace[b].status \in {Created, Running, Paused}
          /\ Len(trace[b].ps) = 2
          /\ \A k \in 1..2 : proc[trace[b].id][trace[b].ps[k]].status = Running

\* C6: recovery gives no monitor to a process that has stopped: none to a
\* process that had stopped already when New came to its container.
C6_NoMonitorForStopped ==
    \A b \in Begun :
        \A i \in (b + 1)..Len(trace) :
            (trace[i].op = "monitor" /\ trace[i].id = trace[b].id)
            => trace[i].pid \notin trace[b].stopped

\* C7: SignalProcess, GetProcess and DeleteProcess for a container that
\* exists and a process ID it does not have all return ErrProcessNotFound.
C7_SameNotFound ==
    [][(/\ calls' = calls + 1
        /\ resp'.op \in {"SignalProcess", "GetProcess", "DeleteProcess"}
        /\ Exists(resp'.id)
        /\ ~HasProcess(resp'.id, resp'.pid))
       => resp'.err = ErrProcessNotFound]_vars

\* C8: New ends without a service only where List failed, and then it has
\* published nothing and armed no monitor; nothing else stops recovery, so
\* once it has returned it has come to every process of every container.
C8_NewFailsOnlyOnList ==
    /\ svc \in {"down", "crashed"} => rec.pc = "failed"
    /\ rec.pc = "failed" =>
          /\ trace = <<>>
          /\ monitors = <<>>
          /\ \A i \in 1..Len(events) : events[i].run # boot
    /\ rec.pc = "returned" =>
          \A c \in 1..Len(rec.list) :
              \E b \in Begun :
                  /\ trace[b].id = rec.list[c]
                  /\ \A k \in 1..Len(trace[b].ps) :
                        \E r \in (b + 1)..Len(trace) :
                            /\ trace[r].op \in {"reach", "monitor"}
                            /\ trace[r].id = trace[b].id
                            /\ trace[r].pid = trace[b].ps[k]

\* the place in the container's process list after the process pid
After(ps, pid) == (CHOOSE k \in 1..Len(ps) : ps[k] = pid) + 1

\* C9: where Wait fails in recovery, the exit event is published all the
\* same, its status code UnknownStatusCode (where Wait returned a status,
\* that status), and New goes on with the next process of the container, or
\* with the next container after the last.
C9_WaitFailureReaped ==
    LET pub == SelectSeq(trace, LAMBDA t : t.op = "publish")
    IN  /\ Len(RecoveryEvents) = Len(pub)
        /\ \A j \in 1..Len(pub) :
              RecoveryEvents[j].v =
                  [ID |-> pub[j].id, Action |-> "exit", PID |-> pub[j].pid,
                   StatusCode |-> IF pub[j].ok THEN proc[pub[j].id][pub[j].pid].code
                                               ELSE UnknownStatusCode]
        /\ \A w \in 1..Len(trace) :
              trace[w].op = "wait" =>
                  /\ w < Len(trace)
                  /\ Is(trace[w + 1], "publish", trace[w].id, trace[w].pid)
                  /\ trace[w + 1].ok = trace[w].ok
        /\ (Len(trace) > 0 /\ trace[Len(trace)].op = "publish" /\ svc = "booting") =>
              LET t == trace[Len(trace)]
                  ps == Processes(t.id)
              IN  IF After(ps, t.pid) <= Len(ps)
                    THEN /\ rec.pc = "process"
                         /\ rec.list[rec.ci] = t.id
                         /\ rec.range[rec.pi] = ps[After(ps, t.pid)]
                    ELSE /\ rec.pc = "container"
                         /\ rec.ci > 1
                         /\ rec.list[rec.ci - 1] = t.id

\* Wait failed for the first process of a container, its event is out with
\* the sentinel, and New has reaped the next process as well
C9_Witness ==
    \E w \in 1..Len(trace) :
        /\ trace[w].op = "wait" /\ ~trace[w].ok
        /\ \E x \in (w + 2)..Len(trace) :
              /\ trace[x].op = "publish"
              /\ trace[x].id = trace[w].id
              /\ trace[x].ok
        /\ \E i \in 1..Len(RecoveryEvents) : RecoveryEvents[i].v.StatusCode = UnknownStatusCode

\* C10: a monitor whose Wait failed publishes nothing and has ended: it
\* stays as it is while the daemon runs; its failure changes nothing but the
\* monitor itself, and every other monitor whose Wait returned a status has
\* its event out.
C10_FailedMonitorSilent ==
    /\ [](svc \in {"booting", "up"} =>
            \A m \in 1..Len(monitors) :
                /\ monitors[m].pc = "failed" => MonitorEvents(m) = {}
                /\ monitors[m].pc = "done" => MonitorEvents(m) # {})
    /\ [][\A m \in 1..Len(monitors) :
            /\ (monitors[m].pc = "failed" /\ boot' = boot /\ svc' # "crashed")
               => (Len(monitors') >= m /\ monitors'[m] = monitors[m])
            /\ (monitors[m].pc = "wait" /\ Len(monitors') >= m /\ monitors'[m].pc = "failed")
               => /\ UNCHANGED <<containers, proc, svc, rec, events, trace, boot, calls>>
                  /\ \A n \in 1..Len(monitors) : n # m => monitors'[n] = monitors[n]]_vars

\* one monitor's Wait has failed and another monitor of that run has published
C10_Witness ==
    /\ svc = "up"
    /\ \E m1, m2 \in 1..Len(monitors) :
          /\ monitors[m1].pc = "failed"
          /\ monitors[m2].pc = "done"
          /\ MonitorEvents(m1) = {}
          /\ MonitorEvents(m2) # {}

\* the operations whose response carries no data
PayloadLess == {"Delete", "Update", "Pause", "Resume", "Start", "SignalProcess", "DeleteProcess"}

\* C11: an operation whose response carries no data (Delete, Update, Pause,
\* Resume, Start, SignalProcess, DeleteProcess) answers every failure with
\* the empty response next to the error, never with no response at all.
C11_EmptyPayloadOnFailure ==
    (resp.op \in PayloadLess /\ resp.err # ErrNil) => resp.payload = emptyResponse

\* a request has been served in this step
Served == calls' = calls + 1

\* C12: outside recovery a monitor is armed by a successful Create and by a
\* successful StartProcess, one for each, holding the container and process
\* of the request, and by nothing else: a Create or StartProcess that
\* failed and every other request leave the monitors as they were, and no
\* request publishes an event.
C12_ArmedByCreateAndStartProcess ==
    [][/\ Served =>
            /\ events' = events
            /\ IF resp'.op \in {"Create", "StartProcess"} /\ resp'.err = ErrNil
                 THEN monitors' = Append(monitors, [cid |-> resp'.id, pid |-> resp'.pid,
                                                    pc |-> "wait"])
                 ELSE monitors' = monitors
       /\ Len(monitors') > Len(monitors) => (Served \/ svc = "booting")]_vars

\* no recovery has armed anything, a Create and a StartProcess have
\* succeeded and the two monitors are theirs
C12_Witness ==
    /\ svc = "up" /\ boot = 0
    /\ resp.op = "StartProcess" /\ resp.err = ErrNil
    /\ Len(monitors) = 2
    /\ monitors[1].pid = InitID /\ monitors[1].cid = resp.id
    /\ monitors[2].pid = resp.pid /\ monitors[2].cid = resp.id

\* C13: Update reports success with the empty response whatever ID it is
\* given, known to the executor or not, asks nothing of the executor, and
\* changes nothing: containers, processes, monitors and events stay as they
\* were.
C13_UpdateDoesNothing ==
    [][(Served /\ resp'.op = "Update") =>
            /\ resp'.err = ErrNil
            /\ resp'.payload = emptyResponse
            /\ resp'.exec = <<>>
            /\ UNCHANGED <<containers, proc, svc, rec, monitors, events, trace, boot>>]_vars

\* Update has answered for a container the executor does not know while
\* another container is running
C13_Witness ==
    /\ resp.op = "Update"
    /\ ~Exists(resp.id)
    /\ \E id \in ContainerIDs : Exists(id) /\ Container(id).status = Running

\* C14: every exit event, of a monitor or of recovery, is posted under the
\* topic made of the container ID and the process ID the event itself
\* carries, and that process is a process of that container which has
\* exited: no event carries a container other than the one whose process
\* exited.
C14_TopicOfTheEvent ==
    \A i \in 1..Len(events) :
        /\ events[i].topic = <<"containers", events[i].v.ID, "processes", events[i].v.PID>>
        /\ events[i].v.Action = "exit"
        /\ proc[events[i].v.ID][events[i].v.PID].status = Stopped
        /\ (events[i].by[1] = "monitor" /\ events[i].run = boot /\ svc \in {"booting", "up"}) =>
              /\ monitors[events[i].by[2]].cid = events[i].v.ID
              /\ monitors[events[i].by[2]].pid = events[i].v.PID

\* a monitor and recovery have each published, for processes of different
\* containers with the same process ID, while the other container's other
\* process runs on
C14_Witness ==
    \E i, j \in 1..Len(events) :
        /\ events[i].by[1] = "monitor" /\ events[j].by[1] = "recovery"
        /\ events[i].v.ID # events[j].v.ID
        /\ events[i].v.PID = events[j].v.PID

\* C15: Create and StartProcess answer as soon as the executor call has
\* succeeded and the monitor is started, without waiting for the exit: when
\* the answer is given the process is running, its monitor is waiting and
\* nothing has been published.
C15_ReturnsWithoutWaiting ==
    [][(Served /\ resp'.op \in {"Create", "StartProcess"} /\ resp'.err = ErrNil) =>
            /\ proc'[resp'.id][resp'.pid].status = Running
            /\ Len(monitors') > 0
            /\ monitors'[Len(monitors')] =
                   [cid |-> resp'.id, pid |-> resp'.pid, pc |-> "wait"]
            /\ resp'.payload = ValuePayload
            /\ events' = events]_vars

\* StartProcess has been answered, the process it started and the init
\* process are both still running, and nothing has been published
C15_Witness ==
    /\ resp.op = "StartProcess" /\ resp.err = ErrNil
    /\ proc[resp.id][resp.pid].status = Running
    /\ proc[resp.id][InitID].status = Running
    /\ \A m \in 1..Len(monitors) : monitors[m].pc = "wait"
    /\ events = <<>>

\* C16: a monitor that is waiting stays as it is while the daemon runs until
\* its own Wait returns: no request ends or removes it, Delete and
\* DeleteProcess included, and when its Wait then returns a status it
\* publishes the exit of its process, whether or not the container or the
\* process has been deleted meanwhile.
C16_MonitorOutlivesRequests ==
    [][(boot' = boot /\ svc' # "crashed") =>
          \A m \in 1..Len(monitors) :
              monitors[m].pc = "wait" =>
                  /\ Len(monitors') >= m
                  /\ \/ monitors'[m] = monitors[m]
                     \/ /\ ~Served
                        /\ CanWait(monitors[m].cid, monitors[m].pid)
                        /\ monitors'[m].cid = monitors[m].cid
                        /\ monitors'[m].pid = monitors[m].pid
                        /\ monitors'[m].pc \in {"done", "failed"}
                        /\ monitors'[m].pc = "done" =>
                              /\ Len(events') = Len(events) + 1
                              /\ events'[Len(events')].v.ID = monitors[m].cid
                              /\ events'[Len(events')].v.PID = monitors[m].pid]_vars

\* a monitor has published the exit of a process after the process was
\* removed from its container, or the container deleted
C16_Witness ==
    /\ svc = "up"
    /\ \E m \in 1..Len(monitors) :
          /\ monitors[m].pc = "done"
          /\ \E i \in MonitorEvents(m) : events[i].gone

\* C17: a request answers with the error the executor gave it, unchanged;
\* it calls no executor method twice; and the executor call that fails is
\* its last, so that after a failed Load the operation on the container is
\* not asked for. What Load answers is what the executor holds.
C17_ExecutorErrorsUnchanged ==
    [][Served =>
          /\ \A k \in 1..Len(resp'.exec) :
                resp'.exec[k].err # ErrNil =>
                    (k = Len(resp'.exec) /\ resp'.err = resp'.exec[k].err)
          /\ \A j, k \in 1..Len(resp'.exec) :
                resp'.exec[j].method = resp'.exec[k].method => j = k
          /\ \A k \in 1..Len(resp'.exec) :
                resp'.exec[k].method = "Load" =>
                    (k = 1 /\ resp'.exec[k].err = Load(resp'.id))
          /\ ~Exists(resp'.id) =>
                resp'.op \in {"Create", "List", "Update"} \/ Len(resp'.exec) = 1]_vars

\* the executor has refused the second call of a request and the request
\* answered with that error
C17_Witness ==
    /\ resp.op = "DeleteProcess"
    /\ Len(resp.exec) = 2
    /\ resp.exec[1] = Called("Load", ErrNil)
    /\ resp.exec[2] = Called("DeleteProcess", ErrProcessNotFound)
    /\ resp.err = ErrProcessNotFound

\* C18: recovery meets no run-time fault, whatever containers the executor
\* lists, a container with an empty process list among them.
C18_RecoveryNeverFaults ==
    \A t \in 1..Len(trace) : trace[t].op # "panic"

\* the steps of New
Recover == NewList \/ NewContainer \/ NewSignal \/ NewWait \/ NewMonitor \/ NewReturn

\* the process New waits on exits
WaitedExit ==
    /\ svc = "booting"
    /\ rec.pc = "wait"
    /\ \E code \in ExitCodes : ProcExit(rec.list[rec.ci], rec.range[rec.pi], code)

\* New runs on while it can, and the Wait it is blocked in returns
FairSpec == Spec /\ WF_vars(Recover) /\ WF_vars(WaitedExit)

\* C19: New returns: once the daemon has started, and with every Wait on a
\* process of a Stopped or Deleted container returning, New comes to its
\* return, with the service or with the error of List; and it waits on no
\* process of a container that is Created, Running or Paused.
C19_RecoveryTerminates ==
    /\ [](svc = "booting" => <>(rec.pc \in {"returned", "failed"}))
    /\ [](rec.pc = "wait" => rec.status \in {Stopped, Deleted})

\* the wire status the interface gives for a status of the executor
WireStatus(status) ==
    IF status = Created THEN StatusCREATED
    ELSE IF status = Running THEN StatusRUNNING
    ELSE IF status = Stopped THEN StatusSTOPPED
    ELSE IF status = Paused THEN StatusPAUSED
    ELSE StatusZero

\* status values of a container, those the interface names and others
StatusValues == {Created, Running, Stopped, Paused, Deleted, "", "unknown", "Created", "STOPPED"}

\* C20: the container a response carries has the ID and the bundle path of
\* the executor's container unchanged, and for status created, running,
\* stopped, paused the wire status of that name; for every other status,
\* deleted among them, the wire status is left at its zero value. Get, List
\* and Create answer with this translation of what the executor holds.
C20_StatusMapper ==
    /\ \A id \in ContainerIDs, status \in StatusValues :
          toGRPCContainer([id |-> id, bundle |-> BundleOf(id), status |-> status])
              = [ID |-> id, BundlePath |-> BundleOf(id), Status |-> WireStatus(status)]
    /\ (resp.op = "Get" /\ resp.err = ErrNil) =>
          resp.value = <<[ID |-> resp.id, BundlePath |-> Container(resp.id).bundle,
                          Status |-> WireStatus(Container(resp.id).status)]>>
    /\ (resp.op = "List" /\ resp.err = ErrNil) =>
          /\ Len(resp.value) = Len(containers)
          /\ \A i \in 1..Len(containers) :
                resp.value[i] = [ID |-> containers[i].id, BundlePath |-> containers[i].bundle,
                                 Status |-> WireStatus(containers[i].status)]
    /\ (resp.op = "Create" /\ resp.err = ErrNil) =>
          resp.value[1] = [ID |-> resp.id, BundlePath |-> BundleOf(resp.id),
                           Status |-> StatusCREATED]

\* Get has answered for a deleted container, with the zero wire status
C20_Witness ==
    /\ resp.op = "Get" /\ resp.err = ErrNil
    /\ Container(resp.id).status = Deleted
    /\ resp.value[1].Status = StatusZero
    /\ resp.value[1].BundlePath = BundleOf(resp.id)

====
